---------------------------- MODULE Spec2Model ----------------------------
(***************************************************************************)
(* A model of kalbun/italian_derivatives:                                  *)
(*   - MistralInterface.invokeLLM   (src/MistralInterface.py)              *)
(*   - relationsBuilder.main        (src/relationsBuilder.py)              *)
(*   - dbRelationCleanup.main       (src/dbRelationCleanup.py)             *)
(* Strings the code inspects character by character (the model's content,  *)
(* which invokeLLM strips) are sequences of characters; words and forms    *)
(* the code only compares and stores are TLA+ strings.                     *)
(***************************************************************************)
EXTENDS Integers, Sequences, FiniteSets, Bags, TLC

VARIABLES
    callers,        \* bag of invokeLLM activations (one record per call of invokeLLM)
    llmSemaphore,   \* value of self.llmSemaphore
    stub,           \* the results the model call (chat.complete) can produce
    word_list,      \* build_word_list(): the sorted noun list
    paisa_set,      \* load_paisa_set(): the vocabulary
    chunk_size,     \* main's chunk_size argument
    start,          \* main's start argument (of the current run)
    origin,         \* the first run's start argument and the store it found
    ppc,            \* where main is
    i,              \* main's loop variable
    chunk,          \* word_list[i:i + chunk_size]
    resp,           \* what invokeLLM returned for the chunk
    terms,          \* process_chunk's result, as insert_terms consumes it
    conn,           \* the sqlite connection: its uncommitted view and the file
    mistral,        \* the deterministic model stub: chunk -> invokeLLM result
    callLog,        \* history: the chunks passed to invokeLLM in this run
    settled,        \* history: the chunks committed or skipped in this run
    inputs,         \* dbRelationCleanup: the records of the input JSONL
    outputs,        \* the records of the output JSONL
    yes,            \* args.yes
    db_path,        \* the store in the sqlite file at db_path
    rpc,            \* where dbRelationCleanup.main is
    out,            \* index of the output record the first loop is at
    to_delete,      \* the dictionary derived -> root, in insertion order
    td,             \* index of the to_delete item the second loop is at
    deletions,      \* the list of (derived, root, derived_forms.id)
    sql_file,       \* the lines written to deletions.sql
    log             \* history: what happened to each output record

llmVars == <<callers, llmSemaphore, stub>>
pipeVars == <<word_list, paisa_set, chunk_size, start, origin, ppc, i, chunk,
              resp, terms, conn, mistral, callLog, settled>>
recVars == <<inputs, outputs, yes, db_path, rpc, out, to_delete, td, deletions,
             sql_file, log>>
vars == <<callers, llmSemaphore, stub, word_list, paisa_set, chunk_size, start,
          origin, ppc, i, chunk, resp, terms, conn, mistral, callLog, settled,
          inputs, outputs, yes, db_path, rpc, out, to_delete, td, deletions,
          sql_file, log>>

---------------------------------------------------------------------------
(* Bounds *)
NumCallers == 7       \* simultaneous invokeLLM callers
MaxAttempts == 3      \* largest value of the attempts argument
ConcAttempts == 2     \* attempts argument of the simultaneous callers
MaxLen == 2           \* longest content string the model returns
MaxWords == 3         \* longest word list
MaxChunk == 2         \* largest chunk size
MaxOutputs == 2       \* most records of the output JSONL

(* Program constants *)
SemaphoreValue == 6   \* threading.Semaphore(6)

---------------------------------------------------------------------------
(* Content strings and str.strip() *)
Space == " "
Chars == {Space, "x"}

StringsUpTo(n) == UNION {[1..k -> Chars] : k \in 0..n}

RECURSIVE LStrip(_)
LStrip(s) == IF s # <<>> /\ Head(s) = Space THEN LStrip(Tail(s)) ELSE s

RECURSIVE RStrip(_)
RStrip(s) ==
    IF s # <<>> /\ s[Len(s)] = Space THEN RStrip(SubSeq(s, 1, Len(s) - 1)) ELSE s

Strip(s) == RStrip(LStrip(s))

---------------------------------------------------------------------------
(* The value of message.content: None, a str, or another truthy object    *)
(* (the SDK also types content as a list of chunks).                       *)
NoneContent == [tag |-> "none", s |-> <<>>]
StrContent(s) == [tag |-> "str", s |-> s]
ChunkList == [tag |-> "list", s |-> <<>>]

Contents(n) == {NoneContent, ChunkList} \cup {StrContent(s) : s \in StringsUpTo(n)}

(* What chat.complete does: raise SDKError, raise another Exception, or    *)
(* return a result.  A result is object- or mapping-shaped; its choices    *)
(* are None, empty, not a list at all (len() raises), or hold a first      *)
(* choice whose message is None or carries a content.                      *)
Raise(kind) ==
    [raises |-> kind, shape |-> "object", choices |-> "none", message |-> "none",
     content |-> NoneContent]

Returned(shape, choices, message, content) ==
    [raises |-> "none", shape |-> shape, choices |-> choices, message |-> message,
     content |-> content]

Results(n) ==
    {Raise("SDKError"), Raise("Exception")}
    \cup {Returned(sh, ch, "none", NoneContent) :
            sh \in {"object", "mapping"}, ch \in {"none", "empty", "notalist"}}
    \cup {Returned(sh, "list", "none", NoneContent) : sh \in {"object", "mapping"}}
    \cup {Returned(sh, "list", "present", c) :
            sh \in {"object", "mapping"}, c \in Contents(n)}

(* Lines 59-72: the defensive extraction of the content. *)
ExtractContent(result) ==
    LET choices == result.choices   \* getattr(result, "choices") or result.get("choices")
    IN  IF choices = "notalist" THEN NoneContent          \* len() raises: except -> None
        ELSE IF choices = "list"                          \* choices and len(choices) > 0
             THEN IF result.message = "present" THEN result.content ELSE NoneContent
             ELSE NoneContent

(* Line 74: `if content:` *)
Truthy(content) ==
    \/ content.tag = "list"
    \/ content.tag = "str" /\ content.s # <<>>

(* What one model call came to, as the history of a caller records it. *)
Outcome(result) ==
    IF result.raises # "none"
    THEN [raised |-> result.raises, content |-> NoneContent]
    ELSE [raised |-> "none", content |-> ExtractContent(result)]

---------------------------------------------------------------------------
(* invokeLLM *)

Caller(attempts) ==
    [pc |-> "loop", attempts |-> attempts, retry_counter |-> 0,
     response |-> <<>>, success |-> FALSE,
     holds |-> FALSE,          \* inside `with self.llmSemaphore`
     calls |-> 0,              \* history: model calls performed
     hist |-> <<>>]            \* history: the outcome of each model call

Replace(c, d) == (callers (-) SetToBag({c})) (+) SetToBag({d})

Active == BagToSet(callers)

NumberAt(pcs) ==
    BagCardinality([c \in {x \in Active : x.pc \in pcs} |-> callers[c]])

InFlight == NumberAt({"call"})

(* Line 48: `while retry_counter < attempts` *)
LoopContinuesOnceMore(c) == c.retry_counter <= c.attempts

LoopContinues(c) == c.retry_counter < c.attempts

(* Line 50: Semaphore.acquire blocks while the value is 0 *)
CanAcquireAlways(sem) == sem >= 0

CanAcquire(sem) == sem > 0

(* Line 50: leaving the `with` block releases the permit, on return and on raise *)
ReleasedOnReturnOnly(result) == result.raises = "none"

Released(result) == TRUE

(* Line 75: response = content.strip() *)
ResponseUnstripped(content) == content.s

ResponseOf(content) == Strip(content.s)

(* Lines 80-81 and 83-84: count the failure and back off *)
Retry(c) == [c EXCEPT !.retry_counter = @ + 1, !.pc = "sleep"]

(* Lines 85-87: `except Exception`: print and break; line 88 returns *)
AbortRetries(c) == [c EXCEPT !.retry_counter = @ + 1, !.pc = "sleep"]

Abort(c) == [c EXCEPT !.pc = "done"]

(* Lines 82-87: which handler an exception raised inside the try reaches *)
HandlerServiceErrorsOnly(kind) ==
    IF kind = "SDKError" THEN "retry" ELSE "propagate"

Handler(kind) ==
    IF kind = "SDKError" THEN "retry"
    ELSE IF kind \in {"Exception", "AttributeError"} THEN "abort"
    ELSE "propagate"

Handle(c, kind) ==
    CASE Handler(kind) = "retry" -> Retry(c)
      [] Handler(kind) = "abort" -> Abort(c)
      [] OTHER -> [c EXCEPT !.pc = "propagated"]

(* Lines 58-87: the rest of one attempt, once the model call has ended *)
AfterCall(c, result) ==
    IF result.raises # "none" THEN Handle(c, result.raises)
    ELSE LET content == ExtractContent(result)
         IN  IF Truthy(content)
             THEN IF content.tag = "str"
                  THEN [c EXCEPT !.response = ResponseOf(content),
                                 !.success = TRUE, !.pc = "done"]
                  ELSE Handle(c, "AttributeError")   \* a list has no strip()
             ELSE Retry(c)

(* Lines 48-50: the loop test succeeds and the permit is acquired *)
Acquire(c) ==
    /\ c.pc = "loop"
    /\ LoopContinues(c)
    /\ c.calls <= MaxAttempts + 1      \* keeps the call counter finite
    /\ CanAcquire(llmSemaphore)
    /\ llmSemaphore' = llmSemaphore - 1
    /\ callers' = Replace(c, [c EXCEPT !.pc = "call", !.holds = TRUE,
                                       !.calls = @ + 1])
    /\ UNCHANGED <<stub, pipeVars, recVars>>

(* Lines 52-87: the model call ends; the permit is released *)
Complete(c, result) ==
    /\ c.pc = "call"
    /\ result \in stub
    /\ LET rel == Released(result)
           d == [AfterCall(c, result) EXCEPT
                    !.holds = ~rel, !.hist = Append(@, Outcome(result))]
       IN  /\ llmSemaphore' = IF rel THEN llmSemaphore + 1 ELSE llmSemaphore
           /\ callers' = Replace(c, d)
    /\ UNCHANGED <<stub, pipeVars, recVars>>

(* Lines 81 and 84: time.sleep ends *)
Wake(c) ==
    /\ c.pc = "sleep"
    /\ callers' = Replace(c, [c EXCEPT !.pc = "loop"])
    /\ UNCHANGED <<llmSemaphore, stub, pipeVars, recVars>>

(* Lines 48 and 88: the loop test fails; return response, success *)
Return(c) ==
    /\ c.pc = "loop"
    /\ ~LoopContinues(c)
    /\ callers' = Replace(c, [c EXCEPT !.pc = "done"])
    /\ UNCHANGED <<llmSemaphore, stub, pipeVars, recVars>>

InvokeNext ==
    \/ \E c \in Active : Acquire(c)
    \/ \E c \in Active : \E result \in stub : Complete(c, result)
    \/ \E c \in Active : Wake(c)
    \/ \E c \in Active : Return(c)

---------------------------------------------------------------------------
(* relationsBuilder: the store *)

EmptyStore == [words |-> <<>>, derived |-> <<>>]

(* A store an earlier run left behind. *)
WordRow(lemma) == [lemma |-> lemma, pos |-> "n"]

DerivedRow(lemma_id, form, pos) ==
    [lemma_id |-> lemma_id, form |-> form, pos |-> pos,
     relation_type |-> "morphological"]

(* Line 191: sqlite3.connect opens the file; nothing is pending *)
Connect(disk) == [work |-> disk, disk |-> disk]

(* Lines 67-91: CREATE TABLE IF NOT EXISTS keeps the rows of existing tables *)
EnsureDbRecreates(c) == [work |-> EmptyStore, disk |-> EmptyStore]

EnsureDb(c) == c

(* Line 187: conn.commit() *)
CommitConn(c) == [work |-> c.work, disk |-> c.work]

(* Line 207: conn.close() drops what was not committed *)
Close(c) == [work |-> c.disk, disk |-> c.disk]

(* The (lemma, pos, form) triples of a store: derived_forms joined to words *)
Triples(st) ==
    {<<st.words[st.derived[k].lemma_id].lemma, st.derived[k].pos, st.derived[k].form>> :
        k \in 1..Len(st.derived)}

---------------------------------------------------------------------------
(* relationsBuilder: the model's answer and process_chunk *)

NA == "N/A"
Slots == <<"a", "v", "r">>      \* the order of the dict built at line 162

(* A value of the morpho mapping: a missing key, a string, or a list *)
Missing == [kind |-> "missing", s |-> ""]
Str(s) == [kind |-> "str", s |-> s]
List == [kind |-> "list", s |-> ""]

(* The value under "morpho": a missing key, null, a string, or a mapping *)
Morpho(a, v, r) == [kind |-> "dict", a |-> a, v |-> v, r |-> r]
MorphoOf(kind) == [kind |-> kind, a |-> Missing, v |-> Missing, r |-> Missing]

(* An entry of the answer: a mapping (with or without "morpho") or a string *)
Entry(morpho) == [kind |-> "dict", morpho |-> morpho]
StringEntry == [kind |-> "string", morpho |-> MorphoOf("missing")]

(* The text invokeLLM returns: "", text that is no JSON, a JSON array, or a *)
(* JSON object, whose items are (noun, entry) in document order.            *)
Text(kind, items) == [kind |-> kind, items |-> items]

Forms == {"allegro", "rallegrare"}

(* The vocabularies tried: none (the file is missing) and one that attests *)
(* "allegro" but not "rallegrare"                                          *)
Vocabularies == {{}, {"allegro"}}

Entries ==
    { Entry(Morpho(Str("allegro"), Str("rallegrare"), Str(NA))),
      Entry(Morpho(Str(NA), Missing, Str("rallegrare"))),
      Entry(Morpho(Str(NA), Str(NA), Str(NA))),
      Entry(MorphoOf("missing")),
      Entry(MorphoOf("string")),
      Entry(Morpho(Str("allegro"), List, Str(NA))) }

(* Every answer to a chunk: one entry per word of the chunk *)
RECURSIVE ItemLists(_)
ItemLists(ch) ==
    IF ch = <<>> THEN {<<>>}
    ELSE {<<[noun |-> Head(ch), entry |-> e]>> \o rest :
            e \in Entries, rest \in ItemLists(Tail(ch))}

Responses(ch) ==
    { [success |-> FALSE, text |-> Text("empty", <<>>)],
      [success |-> TRUE, text |-> Text("garbage", <<>>)],
      [success |-> TRUE, text |-> Text("array", <<>>)] }
    \cup {[success |-> TRUE, text |-> Text("object", items)] : items \in ItemLists(ch)}

NoResp == [success |-> FALSE, text |-> Text("empty", <<>>)]

(* Lines 153-155: morpho.get(key, 'N/A') *)
Get(morpho, slot) ==
    LET x == CASE slot = "a" -> morpho.a [] slot = "v" -> morpho.v [] OTHER -> morpho.r
    IN  IF x.kind = "missing" THEN Str(NA) ELSE x

(* Lines 156-161: a form other than 'N/A' that is not in paisa_set becomes 'N/A' *)
KeepAny(x, paisa) == x.s

Validate(x, paisa) == IF x.s # NA /\ x.s \notin paisa THEN NA ELSE x.s

(* Lines 148-162: what one entry adds to terms; `x not in paisa_set` raises *)
(* for a list, morpho.get raises for a morpho that is no mapping            *)
EntryForms(entry, paisa) ==
    IF entry.kind # "dict" \/ entry.morpho.kind = "missing"      \* line 151
    THEN [raised |-> FALSE, a |-> NA, v |-> NA, r |-> NA]
    ELSE IF entry.morpho.kind = "null"                           \* `or {}`
    THEN [raised |-> FALSE, a |-> NA, v |-> NA, r |-> NA]
    ELSE IF entry.morpho.kind # "dict"
    THEN [raised |-> TRUE, a |-> NA, v |-> NA, r |-> NA]
    ELSE LET a == Get(entry.morpho, "a")
             v == Get(entry.morpho, "v")
             r == Get(entry.morpho, "r")
         IN  IF "list" \in {a.kind, v.kind, r.kind}
             THEN [raised |-> TRUE, a |-> NA, v |-> NA, r |-> NA]
             ELSE [raised |-> FALSE, a |-> Validate(a, paisa),
                   v |-> Validate(v, paisa), r |-> Validate(r, paisa)]

(* Lines 147-164: the loop over results.items(); an exception ends it and  *)
(* leaves in terms what the earlier entries put there                       *)
RECURSIVE BuildTerms(_, _, _)
BuildTerms(items, paisa, acc) ==
    IF items = <<>> THEN [terms |-> acc, raised |-> FALSE]
    ELSE LET f == EntryForms(Head(items).entry, paisa)
         IN  IF f.raised THEN [terms |-> acc, raised |-> TRUE]
             ELSE BuildTerms(Tail(items), paisa,
                     Append(acc, [noun |-> Head(items).noun,
                                  a |-> f.a, v |-> f.v, r |-> f.r]))

(* Lines 143-165: process_chunk, from the result of invokeLLM on *)
process_chunkDefaults(r, paisa) ==
    IF r.text.kind # "object"
    THEN [terms |-> [k \in 1..Len(chunk) |->
                        [noun |-> chunk[k], a |-> NA, v |-> NA, r |-> NA]],
          raised |-> TRUE]
    ELSE BuildTerms(r.text.items, paisa, <<>>)

process_chunk(r, paisa) ==
    IF r.text.kind # "object"              \* json.loads or .items() raises
    THEN [terms |-> <<>>, raised |-> TRUE]
    ELSE BuildTerms(r.text.items, paisa, <<>>)

---------------------------------------------------------------------------
(* relationsBuilder: insert_terms *)

FormOf(term, slot) ==
    CASE slot = "a" -> term.a [] slot = "v" -> term.v [] OTHER -> term.r

(* Lines 178-186: one derived_forms row per form that is neither empty nor *)
(* 'N/A'; the id is generated, so INSERT OR REPLACE always adds a row       *)
RECURSIVE InsertForms(_, _, _, _)
InsertForms(derived, lemma_id, term, k) ==
    IF k > Len(Slots) THEN derived
    ELSE LET form == FormOf(term, Slots[k])
         IN  InsertForms(IF form # "" /\ form # NA
                         THEN Append(derived, DerivedRow(lemma_id, form, Slots[k]))
                         ELSE derived,
                         lemma_id, term, k + 1)

(* Lines 171-186: one iteration of the loop over terms.items() *)
InsertLemmaRows(st, term) ==
    LET known == \E k \in 1..Len(st.words) : st.words[k].lemma = term.noun
        words == IF known THEN st.words                      \* INSERT OR IGNORE
                 ELSE Append(st.words, WordRow(term.noun))
        lemma_id == CHOOSE k \in 1..Len(words) : words[k].lemma = term.noun
    IN  [words |-> words, derived |-> InsertForms(st.derived, lemma_id, term, 1)]

RECURSIVE InsertAll(_, _)
InsertAll(st, ts) ==
    IF ts = <<>> THEN st ELSE InsertAll(InsertLemmaRows(st, Head(ts)), Tail(ts))

(* Lines 168-187: insert_terms as a whole *)
insert_terms(c, ts) == CommitConn([c EXCEPT !.work = InsertAll(c.work, ts)])

---------------------------------------------------------------------------
(* relationsBuilder: main *)

Min(a, b) == IF a < b THEN a ELSE b

(* Line 202: word_list[i:i + chunk_size] *)
Slice(words, from, size) == SubSeq(words, from + 1, Min(from + size, Len(words)))

(* Line 201: the next value of range(start, len(word_list), chunk_size) *)
RangeNextWord(from, size) == from + 1

RangeNext(from, size) == from + size

(* History: how a chunk ended, and the store file before and after it *)
Settle(what, before, after) ==
    [chunk |-> chunk, index |-> i, resp |-> resp, outcome |-> what,
     before |-> before, after |-> after]

(* Lines 190-198: main opens the store and starts at `start` *)
Main ==
    /\ ppc = "idle"
    /\ conn' = EnsureDb(Connect(conn.disk))
    /\ i' = start
    /\ ppc' = "loop"
    /\ UNCHANGED <<word_list, paisa_set, chunk_size, start, origin, chunk, resp,
                   terms, mistral, callLog, settled, llmVars, recVars>>

(* Lines 201-202: the for statement takes the next chunk *)
NextChunk ==
    /\ ppc = "loop"
    /\ i < Len(word_list)
    /\ chunk' = Slice(word_list, i, chunk_size)
    /\ ppc' = "invoke"
    /\ UNCHANGED <<word_list, paisa_set, chunk_size, start, origin, i, resp,
                   terms, conn, mistral, callLog, settled, llmVars, recVars>>

(* Lines 140-142: process_chunk calls invokeLLM once, with the whole chunk *)
InvokeLLM ==
    /\ ppc = "invoke"
    /\ IF chunk \in DOMAIN mistral
       THEN resp' = mistral[chunk] /\ UNCHANGED mistral
       ELSE \E r \in Responses(chunk) :
               /\ resp' = r
               /\ mistral' = mistral @@ (chunk :> r)
    /\ callLog' = Append(callLog, chunk)
    /\ ppc' = "parse"
    /\ UNCHANGED <<word_list, paisa_set, chunk_size, start, origin, i, chunk,
                   terms, conn, settled, llmVars, recVars>>

(* Lines 143-165 and 204: parse and validate; empty terms skip the chunk *)
ParseEmpty ==
    /\ ppc = "parse"
    /\ process_chunk(resp, paisa_set).terms = <<>>
    /\ i' = RangeNext(i, chunk_size)
    /\ ppc' = "loop"
    /\ settled' = Append(settled, Settle("skipped", conn.disk, conn.disk))
    /\ UNCHANGED <<word_list, paisa_set, chunk_size, start, origin, chunk, resp,
                   terms, conn, mistral, callLog, llmVars, recVars>>

(* Lines 143-165 and 204-205: parse and validate; insert_terms is entered *)
ParseTerms ==
    /\ ppc = "parse"
    /\ process_chunk(resp, paisa_set).terms # <<>>
    /\ terms' = process_chunk(resp, paisa_set).terms
    /\ ppc' = "insert"
    /\ UNCHANGED <<word_list, paisa_set, chunk_size, start, origin, i, chunk, resp,
                   conn, mistral, callLog, settled, llmVars, recVars>>

InsertLemmaCommitting ==
    /\ ppc = "insert"
    /\ terms # <<>>
    /\ conn' = CommitConn([conn EXCEPT !.work = InsertLemmaRows(conn.work, Head(terms))])
    /\ terms' = Tail(terms)
    /\ UNCHANGED <<word_list, paisa_set, chunk_size, start, origin, ppc, i, chunk,
                   resp, mistral, callLog, settled, llmVars, recVars>>

(* Lines 170-186: insert_terms handles one lemma *)
InsertLemma ==
    /\ ppc = "insert"
    /\ terms # <<>>
    /\ conn' = [conn EXCEPT !.work = InsertLemmaRows(conn.work, Head(terms))]
    /\ terms' = Tail(terms)
    /\ UNCHANGED <<word_list, paisa_set, chunk_size, start, origin, ppc, i, chunk,
                   resp, mistral, callLog, settled, llmVars, recVars>>

(* Line 187: insert_terms commits; the for statement goes on *)
Commit ==
    /\ ppc = "insert"
    /\ terms = <<>>
    /\ conn' = CommitConn(conn)
    /\ i' = RangeNext(i, chunk_size)
    /\ ppc' = "loop"
    /\ settled' = Append(settled, Settle("committed", conn.disk, CommitConn(conn).disk))
    /\ UNCHANGED <<word_list, paisa_set, chunk_size, start, origin, chunk, resp,
                   terms, mistral, callLog, llmVars, recVars>>

(* Lines 201 and 207: the range is exhausted; main closes the store *)
Finish ==
    /\ ppc = "loop"
    /\ i >= Len(word_list)
    /\ conn' = Close(conn)
    /\ ppc' = "done"
    /\ UNCHANGED <<word_list, paisa_set, chunk_size, start, origin, i, chunk, resp,
                   terms, mistral, callLog, settled, llmVars, recVars>>

(* The process is interrupted: what was not committed is lost *)
Crash ==
    /\ ppc \in {"loop", "invoke", "parse", "insert"}
    /\ conn' = Connect(conn.disk)
    /\ ppc' = "crashed"
    /\ terms' = <<>>
    /\ resp' = NoResp
    /\ chunk' = <<>>
    /\ UNCHANGED <<word_list, paisa_set, chunk_size, start, origin, i, mistral,
                   callLog, settled, llmVars, recVars>>

(* main is run again with --start at the first chunk that was not settled *)
Resume ==
    /\ ppc = "crashed"
    /\ start' = i
    /\ conn' = EnsureDb(Connect(conn.disk))
    /\ ppc' = "loop"
    /\ callLog' = <<>>
    /\ settled' = <<>>
    /\ UNCHANGED <<word_list, paisa_set, chunk_size, origin, i, chunk, resp, terms,
                   mistral, llmVars, recVars>>

PipelineNext ==
    \/ Main
    \/ NextChunk
    \/ InvokeLLM
    \/ ParseEmpty
    \/ ParseTerms
    \/ InsertLemma
    \/ Commit
    \/ Finish
    \/ Crash
    \/ Resume

(* Lines 190-207: main as one uninterrupted run from index `from`, with the *)
(* answers of the stub                                                      *)
RECURSIVE RunLoop(_, _)
RunLoop(c, from) ==
    IF from >= Len(word_list) THEN Close(c)
    ELSE LET ch == Slice(word_list, from, chunk_size)
             ts == IF ch \in DOMAIN mistral
                   THEN process_chunk(mistral[ch], paisa_set).terms
                   ELSE <<>>
         IN  RunLoop(IF ts # <<>> THEN insert_terms(c, ts) ELSE c,
                     RangeNext(from, chunk_size))

main(disk, from) == RunLoop(EnsureDb(Connect(disk)), from)

---------------------------------------------------------------------------
(* dbRelationCleanup: strings *)

(* A prompt is a sequence of pieces of text: the two phrases of the         *)
(* template, the quote character, and words; a judgment and a reply typed   *)
(* at the prompt are sequences of characters.                               *)
Quote == <<"'">>
LaParola == <<"La parola ", "'">>
ConIlLemma == <<"con il lemma ", "'">>
Arrow == <<"->">>

(* str.find(sub, from): the lowest index (from 0) at or after `from` where  *)
(* sub occurs, or -1                                                        *)
Find(sub, s, from) ==
    LET hits == {j \in from..(Len(s) - Len(sub)) :
                    SubSeq(s, j + 1, j + Len(sub)) = sub}
    IN  IF hits = {} THEN -1
        ELSE CHOOSE j \in hits : \A h \in hits : j <= h

(* s[a:b], with Python's reading of a negative b *)
PySlice(s, a, b) ==
    LET e == IF b < 0 THEN Len(s) + b ELSE Min(b, Len(s))
    IN  IF a >= e THEN <<>> ELSE SubSeq(s, a + 1, e)

(* str.lower(), and the folding of COLLATE NOCASE *)
LowerCase(c) ==
    CASE c = "N" -> "n" [] c = "O" -> "o" [] c = "S" -> "s" [] c = "Y" -> "y"
      [] c = "Casa" -> "casa"
      [] OTHER -> c

Lower(s) == [j \in 1..Len(s) |-> LowerCase(s[j])]

---------------------------------------------------------------------------
(* dbRelationCleanup: the records of the two JSONL files *)

NoId == "None"

InputRecord(cid, content, question) ==
    [custom_id |-> cid, content |-> content, question |-> question]

Judgment(content) == [kind |-> "choices", content |-> content]
NoChoices == [kind |-> "error", content |-> <<>>]

OutputRecord(cid, response) == [custom_id |-> cid, response |-> response]

(* Lines 43-51: the last record of each custom_id; records without one are *)
(* left out                                                                 *)
build_input_map(input_records) ==
    LET ids == {input_records[j].custom_id : j \in 1..Len(input_records)} \ {NoId}
        last(cid) == CHOOSE j \in 1..Len(input_records) :
                        /\ input_records[j].custom_id = cid
                        /\ \A h \in 1..Len(input_records) :
                              input_records[h].custom_id = cid => h <= j
    IN  [cid \in ids |-> input_records[last(cid)]]

input_map == build_input_map(inputs)

(* Lines 54-62: prompt_yes_no with default = False, from the typed reply *)
prompt_yes_noDefaultYes(reply) ==
    LET r == Strip(Lower(reply))
    IN  IF r = <<>> THEN TRUE ELSE r[1] = "y"

prompt_yes_no(reply) ==
    LET r == Strip(Lower(reply))
    IN  IF r = <<>> THEN FALSE ELSE r[1] = "y"

(* Lines 116-149: the (derived, root) pair of an input record, or the       *)
(* reason why the record is skipped                                         *)
SkipPair(why) == [kind |-> why, derived |-> <<>>, root |-> <<>>]
Pair(derived, root) == [kind |-> "pair", derived |-> derived, root |-> root]

Quoted(content, index, marker) ==
    LET from == index + Len(marker)
    IN  PySlice(content, from, Find(Quote, content, from))

Fallback(derived, root, q) ==
    IF (derived = <<>> \/ root = <<>>) /\ Find(Arrow, q, 0) # -1
    THEN LET at == Find(Arrow, q, 0)
         IN  Pair(Strip(PySlice(q, 0, at)),
                  Strip(PySlice(q, at + Len(Arrow), Len(q))))
    ELSE Pair(derived, root)

ExtractPair(in_rec) ==
    LET content == in_rec.content
        index1 == Find(LaParola, content, 0)
        index2 == Find(ConIlLemma, content, 0)
    IN  IF index1 = -1 THEN SkipPair("no derived term")
        ELSE IF index2 = -1 THEN SkipPair("no root term")
        ELSE LET p == Fallback(Quoted(content, index1, LaParola),
                               Quoted(content, index2, ConIlLemma),
                               in_rec.question)
             IN  IF p.derived = <<>> \/ p.root = <<>>
                 THEN SkipPair("undetermined")
                 ELSE Pair(Strip(p.derived), Strip(p.root))

(* Lines 108-145: what the first loop makes of an output record before it   *)
(* reads the judgment                                                       *)
PairOf(o) ==
    IF o.custom_id = NoId THEN SkipPair("no custom_id")
    ELSE IF o.custom_id \notin DOMAIN input_map THEN SkipPair("no input record")
    ELSE ExtractPair(input_map[o.custom_id])

(* Lines 152-154: the judgment, stripped and lower-cased, has "no" in it *)
AnswersNo(answer) == Find(<<"n", "o">>, Lower(Strip(answer)), 0) # -1

(* Line 160: to_delete[derived] = root; a key already there keeps its place *)
DictSet(d, derived, root) ==
    IF \E j \in 1..Len(d) : d[j].derived = derived
    THEN [j \in 1..Len(d) |->
            IF d[j].derived = derived THEN Pair(derived, root) ELSE d[j]]
    ELSE Append(d, Pair(derived, root))

---------------------------------------------------------------------------
(* dbRelationCleanup: matching against the store *)

(* Line 175: the first words row whose lemma is root, letter case aside;    *)
(* 0 when there is none                                                     *)
RootRow(st, root) ==
    LET hits == {j \in 1..Len(st.words) : Lower(<<st.words[j].lemma>>) = Lower(root)}
    IN  IF hits = {} THEN 0
        ELSE CHOOSE j \in hits : \A h \in hits : j <= h

(* Line 181: the ids of the derived_forms rows of one lemma_id, in order *)
RECURSIVE DerivedRows(_, _, _)
DerivedRows(st, root_id, from) ==
    IF from > Len(st.derived) THEN <<>>
    ELSE (IF st.derived[from].lemma_id = root_id THEN <<from>> ELSE <<>>)
         \o DerivedRows(st, root_id, from + 1)

Deletion(derived, root, df_id) ==
    [derived |-> derived, root |-> root, df_id |-> df_id]

(* Lines 173-189: what one item of to_delete appends to deletions *)
MatchItem(st, item) ==
    LET root_id == RootRow(st, item.root)
        rows == DerivedRows(st, root_id, 1)
    IN  IF root_id = 0 THEN <<>>
        ELSE [j \in 1..Len(rows) |-> Deletion(item.derived, item.root, rows[j])]

(* What executing deletions.sql would leave in derived_forms *)
RECURSIVE Without(_, _, _)
Without(rows, ids, from) ==
    IF from > Len(rows) THEN <<>>
    ELSE (IF from \in ids THEN <<>> ELSE <<rows[from]>>)
         \o Without(rows, ids, from + 1)

Execute(st, plan) ==
    [st EXCEPT !.derived = Without(st.derived, {plan[j].df_id : j \in 1..Len(plan)}, 1)]

---------------------------------------------------------------------------
(* dbRelationCleanup.main *)

LogEntry(pair, candidate, asked, reply, confirm) ==
    [out |-> out, pair |-> pair, candidate |-> candidate, asked |-> asked,
     reply |-> reply, confirm |-> confirm]

NoReply == <<"-">>

(* The replies typed at the prompt *)
Replies == {<<>>, <<" ", "Y">>, <<"n">>}

PairFound == out \in 1..Len(outputs) /\ PairOf(outputs[out]).kind = "pair"

Candidate ==
    /\ PairFound
    /\ outputs[out].response.kind = "choices"
    /\ AnswersNo(outputs[out].response.content)

(* Lines 94-105: both files are read; the loop over outputs begins *)
ReadFiles ==
    /\ rpc = "start"
    /\ rpc' = "scan"
    /\ out' = 1
    /\ UNCHANGED <<inputs, outputs, yes, db_path, to_delete, td, deletions,
                   sql_file, log, llmVars, pipeVars>>

(* Lines 108-145: a record without custom_id, without input record, without *)
(* one of the two phrases or without a pair is passed over                  *)
SkipRecordRaises ==
    /\ rpc = "scan"
    /\ out \in 1..Len(outputs)
    /\ ~PairFound
    /\ rpc' = "raised"
    /\ log' = Append(log, LogEntry(PairOf(outputs[out]), FALSE, FALSE, NoReply, FALSE))
    /\ UNCHANGED <<inputs, outputs, yes, db_path, out, to_delete, td, deletions,
                   sql_file, llmVars, pipeVars>>

SkipRecord ==
    /\ rpc = "scan"
    /\ out \in 1..Len(outputs)
    /\ ~PairFound
    /\ out' = out + 1
    /\ log' = Append(log, LogEntry(PairOf(outputs[out]), FALSE, FALSE, NoReply, FALSE))
    /\ UNCHANGED <<inputs, outputs, yes, db_path, rpc, to_delete, td, deletions,
                   sql_file, llmVars, pipeVars>>

(* Line 151: the output record has no response.body.choices[0].message;     *)
(* the KeyError is not caught and ends the run                              *)
KeyError ==
    /\ rpc = "scan"
    /\ PairFound
    /\ outputs[out].response.kind = "error"
    /\ rpc' = "raised"
    /\ UNCHANGED <<inputs, outputs, yes, db_path, out, to_delete, td, deletions,
                   sql_file, log, llmVars, pipeVars>>

(* Line 154, false: the judgment has no "no" in it *)
NotNo ==
    /\ rpc = "scan"
    /\ PairFound
    /\ outputs[out].response.kind = "choices"
    /\ ~AnswersNo(outputs[out].response.content)
    /\ out' = out + 1
    /\ log' = Append(log, LogEntry(PairOf(outputs[out]), FALSE, FALSE, NoReply, FALSE))
    /\ UNCHANGED <<inputs, outputs, yes, db_path, rpc, to_delete, td, deletions,
                   sql_file, llmVars, pipeVars>>

(* Lines 155-160 with --yes: prompt_yes_no is not evaluated *)
AcceptAll ==
    /\ rpc = "scan"
    /\ Candidate
    /\ yes
    /\ LET p == PairOf(outputs[out])
       IN  /\ to_delete' = DictSet(to_delete, p.derived, p.root)
           /\ log' = Append(log, LogEntry(p, TRUE, FALSE, NoReply, TRUE))
    /\ out' = out + 1
    /\ UNCHANGED <<inputs, outputs, yes, db_path, rpc, td, deletions, sql_file,
                   llmVars, pipeVars>>

(* Lines 155-158 without --yes: prompt_yes_no waits at input() *)
Ask ==
    /\ rpc = "scan"
    /\ Candidate
    /\ ~yes
    /\ rpc' = "ask"
    /\ UNCHANGED <<inputs, outputs, yes, db_path, out, to_delete, td, deletions,
                   sql_file, log, llmVars, pipeVars>>

(* Lines 59-62 and 159-160: the reply decides *)
Reply(reply) ==
    /\ rpc = "ask"
    /\ LET p == PairOf(outputs[out])
           confirm == prompt_yes_no(reply)
       IN  /\ to_delete' = IF confirm THEN DictSet(to_delete, p.derived, p.root)
                           ELSE to_delete
           /\ log' = Append(log, LogEntry(p, TRUE, TRUE, reply, confirm))
    /\ out' = out + 1
    /\ rpc' = "scan"
    /\ UNCHANGED <<inputs, outputs, yes, db_path, td, deletions, sql_file,
                   llmVars, pipeVars>>

(* Lines 162-164: nothing was confirmed *)
NoConfirmed ==
    /\ rpc = "scan"
    /\ out > Len(outputs)
    /\ to_delete = <<>>
    /\ rpc' = "done"
    /\ UNCHANGED <<inputs, outputs, yes, db_path, out, to_delete, td, deletions,
                   sql_file, log, llmVars, pipeVars>>

(* Lines 167-171: the store is opened; the loop over to_delete begins *)
ConnectDb ==
    /\ rpc = "scan"
    /\ out > Len(outputs)
    /\ to_delete # <<>>
    /\ rpc' = "match"
    /\ td' = 1
    /\ UNCHANGED <<inputs, outputs, yes, db_path, out, to_delete, deletions,
                   sql_file, log, llmVars, pipeVars>>

(* Lines 173-189: one item of to_delete is matched *)
MatchNext ==
    /\ rpc = "match"
    /\ td \in 1..Len(to_delete)
    /\ deletions' = deletions \o MatchItem(db_path, to_delete[td])
    /\ td' = td + 1
    /\ UNCHANGED <<inputs, outputs, yes, db_path, rpc, out, to_delete, sql_file,
                   log, llmVars, pipeVars>>

(* Lines 191-193: no row matched *)
NoRows ==
    /\ rpc = "match"
    /\ td > Len(to_delete)
    /\ deletions = <<>>
    /\ rpc' = "done"
    /\ UNCHANGED <<inputs, outputs, yes, db_path, out, to_delete, td, deletions,
                   sql_file, log, llmVars, pipeVars>>

(* Lines 195-205: the DELETE statements are written to deletions.sql; none  *)
(* is executed                                                              *)
WriteSqlExecuting ==
    /\ rpc = "match"
    /\ td > Len(to_delete)
    /\ deletions # <<>>
    /\ sql_file' = deletions
    /\ db_path' = Execute(db_path, deletions)
    /\ rpc' = "done"
    /\ UNCHANGED <<inputs, outputs, yes, out, to_delete, td, deletions, log,
                   llmVars, pipeVars>>

WriteSql ==
    /\ rpc = "match"
    /\ td > Len(to_delete)
    /\ deletions # <<>>
    /\ sql_file' = deletions
    /\ rpc' = "done"
    /\ UNCHANGED <<inputs, outputs, yes, db_path, out, to_delete, td, deletions,
                   log, llmVars, pipeVars>>

ReconcileNext ==
    \/ ReadFiles
    \/ SkipRecord
    \/ KeyError
    \/ NotNo
    \/ AcceptAll
    \/ Ask
    \/ \E reply \in Replies : Reply(reply)
    \/ NoConfirmed
    \/ ConnectDb
    \/ MatchNext
    \/ NoRows
    \/ WriteSql

---------------------------------------------------------------------------
(* Initial states *)

Nouns == <<"casa", "gatto", "luce", "mare">>

EarlierStore ==
    [words |-> <<WordRow("casa")>>, derived |-> <<DerivedRow(1, "allegro", "a")>>]

PipelineIdle ==
    /\ word_list = <<>>
    /\ paisa_set = {}
    /\ chunk_size = 1
    /\ start = 0
    /\ origin = [start |-> 0, store |-> EmptyStore]
    /\ ppc = "off"
    /\ i = 0
    /\ chunk = <<>>
    /\ resp = NoResp
    /\ terms = <<>>
    /\ conn = Connect(EmptyStore)
    /\ mistral = <<>>
    /\ callLog = <<>>
    /\ settled = <<>>

ReconcileIdle ==
    /\ inputs = <<>>
    /\ outputs = <<>>
    /\ yes = FALSE
    /\ db_path = EmptyStore
    /\ rpc = "off"
    /\ out = 0
    /\ to_delete = <<>>
    /\ td = 0
    /\ deletions = <<>>
    /\ sql_file = <<>>
    /\ log = <<>>

LLMIdle ==
    /\ callers = EmptyBag
    /\ llmSemaphore = SemaphoreValue
    /\ stub = {}

(* Any sorted word list, start index, chunk size, vocabulary and store *)
InitPipeline ==
    /\ LLMIdle
    /\ ReconcileIdle
    /\ \E n \in 0..MaxWords : word_list = SubSeq(Nouns, 1, n)
    /\ paisa_set \in Vocabularies
    /\ chunk_size \in 1..MaxChunk
    /\ start \in 0..Len(word_list)
    /\ \E st \in {EmptyStore, EarlierStore} :
          /\ origin = [start |-> start, store |-> st]
          /\ conn = Connect(st)
    /\ ppc = "idle"
    /\ i = 0
    /\ chunk = <<>>
    /\ resp = NoResp
    /\ terms = <<>>
    /\ mistral = <<>>
    /\ callLog = <<>>
    /\ settled = <<>>

(* One caller, any attempts argument, a stub that can do anything. *)
InitInvoke ==
    /\ \E a \in 0..MaxAttempts : callers = SetToBag({Caller(a)})
    /\ llmSemaphore = SemaphoreValue
    /\ stub = Results(MaxLen)
    /\ PipelineIdle
    /\ ReconcileIdle

(* NumCallers simultaneous callers of one MistralInterface. *)
TextX == StrContent(<<"x">>)

InitConcurrent ==
    /\ callers = [c \in {Caller(ConcAttempts)} |-> NumCallers]
    /\ llmSemaphore = SemaphoreValue
    /\ stub = {Raise("SDKError"), Raise("Exception"),
               Returned("object", "list", "present", TextX)}
    /\ PipelineIdle
    /\ ReconcileIdle

(* The input and output files of a batch, any --yes, and a store *)
Question(derived, root) ==
    LaParola \o derived \o Quote \o <<" ha una connessione morfologica ">>
        \o ConIlLemma \o root \o Quote \o <<"?">>

NoQuestion == <<>>

Bodies1 ==
    { [content |-> Question(<<"bello">>, <<"Casa">>), question |-> NoQuestion],
      [content |-> <<"bello", " ha una connessione morfologica ">>
                       \o ConIlLemma \o <<"Casa">> \o Quote \o <<"?">>,
       question |-> NoQuestion],
      [content |-> LaParola \o <<"bello">> \o Quote \o <<"?">>,
       question |-> NoQuestion] }

Bodies2 ==
    { [content |-> Question(<<"bello">>, <<"mare">>), question |-> NoQuestion],
      [content |-> Question(<<>>, <<"luce">>),
       question |-> <<"bella", " ", "->", " ", "luce">>],
      [content |-> Question(<<>>, <<"luce">>), question |-> NoQuestion] }

InputFile(b1, b2) ==
    << InputRecord(NoId, Question(<<"bello">>, <<"Casa">>), NoQuestion),
       InputRecord("1", Question(<<"bello">>, <<"luce">>), NoQuestion),
       InputRecord("1", b1.content, b1.question),
       InputRecord("2", b2.content, b2.question) >>

Judgments == { <<"N", "o", ".">>, <<"S", "o", "n", "o">>, <<"s", "i">> }

OutputRecords ==
    {OutputRecord(cid, Judgment(j)) : cid \in {"1", "2"}, j \in Judgments}
    \cup { OutputRecord("9", Judgment(<<"N", "o", ".">>)),
           OutputRecord(NoId, Judgment(<<"N", "o", ".">>)),
           OutputRecord("1", NoChoices) }

OutputFiles == UNION {[1..n -> OutputRecords] : n \in 0..MaxOutputs}

StoreWithForms ==
    [words |-> <<WordRow("casa"), WordRow("mare")>>,
     derived |-> <<DerivedRow(1, "bello", "a"), DerivedRow(1, "abbellire", "v"),
                   DerivedRow(2, "bello", "a")>>]

StoreWithoutForms == [words |-> <<WordRow("luce")>>, derived |-> <<>>]

InitReconcile ==
    /\ LLMIdle
    /\ PipelineIdle
    /\ \E b1 \in Bodies1, b2 \in Bodies2 : inputs = InputFile(b1, b2)
    /\ outputs \in OutputFiles
    /\ yes \in BOOLEAN
    /\ db_path \in {StoreWithForms, StoreWithoutForms}
    /\ rpc = "start"
    /\ out = 0
    /\ to_delete = <<>>
    /\ td = 0
    /\ deletions = <<>>
    /\ sql_file = <<>>
    /\ log = <<>>

SpecInvoke == InitInvoke /\ [][InvokeNext]_vars

SpecConcurrent == InitConcurrent /\ [][InvokeNext]_vars

SpecPipeline == InitPipeline /\ [][PipelineNext]_vars

SpecReconcile == InitReconcile /\ [][ReconcileNext]_vars

---------------------------------------------------------------------------
(* Claims about invokeLLM *)

(* The claim's "fails transiently": a recognized service error, or a call  *)
(* that returned no content.                                               *)
TransientOutcome(o) ==
    \/ o.raised = "SDKError"
    \/ o.raised = "none" /\ o.content.tag = "none"

NonEmptyText(o) ==
    o.raised = "none" /\ o.content.tag = "str" /\ o.content.s # <<>>

AllTransient(h) == \A j \in 1..Len(h) : TransientOutcome(h[j])

(* The model call failed transiently k times and then returned text. *)
FailedThenText(c) ==
    /\ c.hist # <<>>
    /\ Len(c.hist) <= c.attempts
    /\ AllTransient(SubSeq(c.hist, 1, Len(c.hist) - 1))
    /\ NonEmptyText(c.hist[Len(c.hist)])

LastContent(c) == c.hist[Len(c.hist)].content.s

(* C1: with NumCallers >= 7 simultaneous callers, the number of model calls *)
(* in flight never exceeds 6.                                               *)
C1_PeakConcurrency == InFlight <= SemaphoreValue

C1_Witness ==
    /\ InFlight = SemaphoreValue
    /\ \E c \in Active : c.pc = "loop" /\ LoopContinues(c)

(* C2, as stated: after k < attempts transient failures followed by         *)
(* non-empty content, invokeLLM returns (that text, true) after exactly     *)
(* k+1 model calls.                                                         *)
C2_ReturnsThatText ==
    \A c \in Active :
        /\ (AllTransient(c.hist) /\ Len(c.hist) < c.attempts) => c.pc # "done"
        /\ FailedThenText(c) =>
              /\ c.pc = "done"
              /\ c.success
              /\ c.response = LastContent(c)
              /\ c.calls = Len(c.hist)

(* C2, amended: after k < attempts transient failures followed by non-empty *)
(* text content, invokeLLM returns (the content with its leading and        *)
(* trailing whitespace stripped, true) after exactly k+1 model calls, and   *)
(* it has not returned before the call that produced the content.           *)
C2_ReturnsStrippedText ==
    \A c \in Active :
        /\ (AllTransient(c.hist) /\ Len(c.hist) < c.attempts) => c.pc # "done"
        /\ FailedThenText(c) =>
              /\ c.pc = "done"
              /\ c.success
              /\ c.response = Strip(LastContent(c))
              /\ c.calls = Len(c.hist)

C2_Witness ==
    \E c \in Active :
        /\ FailedThenText(c)
        /\ Len(c.hist) >= 2
        /\ c.pc = "done"
        /\ LastContent(c) = <<Space, "x">>

(* C3: when every attempt fails transiently, invokeLLM returns ("", false)  *)
(* after exactly attempts model calls, never fewer and never more.          *)
C3_ExhaustedAttempts ==
    \A c \in Active :
        AllTransient(c.hist) =>
            /\ c.calls <= c.attempts
            /\ c.pc = "done" =>
                  /\ c.calls = c.attempts
                  /\ Len(c.hist) = c.attempts
                  /\ c.response = <<>>
                  /\ ~c.success

C3_Witness ==
    \E c \in Active :
        /\ c.pc = "done"
        /\ c.attempts >= 2
        /\ AllTransient(c.hist)
        /\ Len(c.hist) = c.attempts

(* C4: when the model call raises an unrecognized error, invokeLLM makes no *)
(* further model call and returns ("", false); raised by the first call,    *)
(* that is after exactly 1 call.                                            *)
C4_UnexpectedErrorAborts ==
    \A c \in Active :
        \A j \in 1..Len(c.hist) :
            c.hist[j].raised = "Exception" =>
                /\ j = Len(c.hist)
                /\ c.calls = j
                /\ c.pc = "done"
                /\ c.response = <<>>
                /\ ~c.success

C4_Witness ==
    \E c \in Active :
        /\ c.pc = "done"
        /\ c.attempts >= 2
        /\ c.calls = 1
        /\ c.hist[1].raised = "Exception"

(* C5: invokeLLM never propagates an exception: whatever the model call     *)
(* does, an invocation is in its loop or has returned a (text, succeeded)   *)
(* tuple, and every return without success returns ("", false).             *)
C5_NeverPropagates ==
    \A c \in Active :
        /\ c.pc \in {"loop", "call", "sleep", "done"}
        /\ (c.pc = "done" /\ ~c.success) => c.response = <<>>
        /\ (c.pc = "loop" /\ ~LoopContinues(c)) => ENABLED Return(c)

C5_Witness ==
    \E c \in Active :
        /\ c.pc = "done"
        /\ ~c.success
        /\ Len(c.hist) >= 2
        /\ c.hist[Len(c.hist)].content = ChunkList

(* C6: a permit is held only while a model call is in progress: it is      *)
(* released when the call returns or raises, none is held during a backoff *)
(* wait or after invokeLLM returned, and with no call in flight all 6      *)
(* permits are available.                                                   *)
C6_PermitOnlyDuringCall ==
    /\ \A c \in Active : c.holds <=> c.pc = "call"
    /\ llmSemaphore = SemaphoreValue - InFlight
    /\ InFlight = 0 => llmSemaphore = SemaphoreValue

C6_Witness ==
    /\ InFlight = 0
    /\ llmSemaphore = SemaphoreValue
    /\ \E c \in Active : c.pc = "sleep"
    /\ \E c \in Active :
          c.pc = "done" /\ c.hist # <<>> /\ c.hist[Len(c.hist)].raised = "Exception"
    /\ \E c \in Active : c.pc = "done" /\ c.success

---------------------------------------------------------------------------
(* Claims about the generation pipeline *)

Range(f) == {f[k] : k \in DOMAIN f}

(* The rows a settled chunk added to derived_forms *)
AddedRows(e) == (Len(e.before.derived) + 1)..Len(e.after.derived)

(* process_chunk reads the whole answer without an exception *)
ParsesFully(r) ==
    /\ r.text.kind = "object"
    /\ \A it \in Range(r.text.items) :
          it.entry.kind = "dict" =>
              \/ it.entry.morpho.kind \in {"missing", "null"}
              \/ /\ it.entry.morpho.kind = "dict"
                 /\ \A x \in {it.entry.morpho.a, it.entry.morpho.v, it.entry.morpho.r} :
                       x.kind # "list"

(* The candidate forms of an answer: (noun, slot, form) with form not 'N/A' *)
Candidates(r) ==
    {<<it.noun, slot, Get(it.entry.morpho, slot).s>> :
        it \in {x \in Range(r.text.items) :
                    x.entry.kind = "dict" /\ x.entry.morpho.kind = "dict"},
        slot \in Range(Slots)}
    \ {<<n, slot, NA>> : n \in Range(Nouns), slot \in Range(Slots)}

Persisted(e, cand) ==
    \E k \in AddedRows(e) :
        /\ e.after.derived[k].form = cand[3]
        /\ e.after.derived[k].pos = cand[2]
        /\ e.after.words[e.after.derived[k].lemma_id].lemma = cand[1]
        /\ k <= Len(conn.disk.derived)
        /\ conn.disk.derived[k] = e.after.derived[k]

(* C7: a run interrupted after a chunk was settled and resumed with start  *)
(* at the next chunk boundary ends with the same (lemma, pos, form)        *)
(* triples in the store as one uninterrupted run from the first start      *)
(* index, the model stub being deterministic.                              *)
C7_ResumeSameTriples ==
    ppc = "done" =>
        Triples(conn.disk) = Triples(main(origin.store, origin.start).disk)

C7_Witness ==
    /\ ppc = "done"
    /\ start > origin.start
    /\ origin.store = EmptyStore
    /\ \E t \in Triples(conn.disk) : t[1] = word_list[origin.start + 1]
    /\ \E j \in 1..Len(settled) :
          settled[j].outcome = "committed" /\ AddedRows(settled[j]) # {}

(* C8: no derived form outside the vocabulary is ever written to the store *)
(* (it became 'N/A' before insert_terms), and every candidate form of a    *)
(* fully parsed answer that is in the vocabulary is committed verbatim as  *)
(* a derived_forms row of its word and slot.                               *)
C8_VocabularyFilter ==
    /\ \A k \in (Len(origin.store.derived) + 1)..Len(conn.work.derived) :
          conn.work.derived[k].form \in paisa_set
    /\ \A k \in (Len(origin.store.derived) + 1)..Len(conn.disk.derived) :
          conn.disk.derived[k].form \in paisa_set
    /\ \A j \in 1..Len(settled) :
          ParsesFully(settled[j].resp) =>
              \A cand \in Candidates(settled[j].resp) :
                  cand[3] \in paisa_set => Persisted(settled[j], cand)

C8_Witness ==
    \E j \in 1..Len(settled) :
        /\ ParsesFully(settled[j].resp)
        /\ settled[j].outcome = "committed"
        /\ \E cand \in Candidates(settled[j].resp) :
              cand[3] \in paisa_set /\ Persisted(settled[j], cand)
        /\ \E cand \in Candidates(settled[j].resp) : cand[3] \notin paisa_set

(* C9: the chunks word_list[s + j*c : s + (j+1)*c] are processed in        *)
(* increasing j with exactly one invokeLLM call per chunk, and the call of *)
(* a chunk starts only when the chunk before it was committed or skipped.  *)
ChunkAt(j) ==
    SubSeq(word_list, start + (j - 1) * chunk_size + 1,
           Min(start + j * chunk_size, Len(word_list)))

NumberOfChunks ==
    IF start >= Len(word_list) THEN 0
    ELSE (Len(word_list) - start + chunk_size - 1) \div chunk_size

C9_ChunksInOrder ==
    /\ \A j \in 1..Len(callLog) : callLog[j] = ChunkAt(j)
    /\ Len(settled) <= Len(callLog)
    /\ \A j \in 1..Len(settled) : settled[j].chunk = callLog[j]
    /\ ppc \in {"loop", "invoke", "done"} =>
          /\ Len(callLog) = Len(settled)
          /\ conn.work = conn.disk
          /\ settled # <<>> => conn.disk = settled[Len(settled)].after
    /\ ppc \in {"parse", "insert"} => Len(callLog) = Len(settled) + 1
    /\ ppc = "done" => Len(callLog) = NumberOfChunks

C9_Witness ==
    /\ ppc = "parse"
    /\ chunk_size = 2
    /\ Len(callLog) = 2
    /\ Len(callLog[1]) = 2
    /\ settled[1].outcome = "committed"

(* C10: a chunk whose answer is malformed (invalid JSON, not an object, or *)
(* an entry whose morpho or whose form is mis-shaped) is skipped: it adds  *)
(* no word row and no derived-form row, also for the entries that precede  *)
(* the malformed one.                                                      *)
Malformed(r) == r.success /\ ~ParsesFully(r)

C10_MalformedChunkSkipped ==
    \A j \in 1..Len(settled) :
        Malformed(settled[j].resp) =>
            /\ settled[j].outcome = "skipped"
            /\ settled[j].after = settled[j].before

(* C11: when invokeLLM failed for a chunk, or its text is no JSON, the     *)
(* chunk leaves the store as it was, is not called again, and the run goes *)
(* on to every later chunk.                                                *)
FailedOrUnparsed(r) == ~r.success \/ r.text.kind \in {"empty", "garbage"}

C11_FailedChunkSkipped ==
    /\ \A j \in 1..Len(settled) :
          /\ settled[j].index = start + (j - 1) * chunk_size
          /\ settled[j].chunk = ChunkAt(j)
          /\ FailedOrUnparsed(settled[j].resp) =>
                /\ settled[j].outcome = "skipped"
                /\ settled[j].after = settled[j].before
    /\ Len(callLog) <= Len(settled) + 1
    /\ (ppc = "loop" /\ settled # <<>>
            /\ FailedOrUnparsed(settled[Len(settled)].resp)) =>
          /\ conn.disk = settled[Len(settled)].before
          /\ i = settled[Len(settled)].index + chunk_size
    /\ ppc = "done" =>
          /\ Len(settled) = NumberOfChunks
          /\ Len(callLog) = NumberOfChunks

C11_Witness ==
    /\ ppc = "done"
    /\ Len(settled) >= 2
    /\ ~settled[1].resp.success
    /\ settled[2].outcome = "committed"
    /\ settled[2].after # settled[2].before

(* The committed store after the chunks from index `from` up to, and not   *)
(* including, index `to` were processed with the answers of the stub.      *)
RECURSIVE CommittedUpTo(_, _, _)
CommittedUpTo(st, from, to) ==
    IF from >= to \/ from >= Len(word_list) THEN st
    ELSE LET ch == Slice(word_list, from, chunk_size)
             ts == IF ch \in DOMAIN mistral
                   THEN process_chunk(mistral[ch], paisa_set).terms
                   ELSE <<>>
         IN  CommittedUpTo(IF ts # <<>> THEN insert_terms(Connect(st), ts).disk
                           ELSE st,
                           RangeNext(from, chunk_size), to)

(* C12: the committed store changes only at the one commit that ends a     *)
(* chunk; at every point, a crash included, it holds all rows of the       *)
(* completed chunks and no row of the chunk in progress.                   *)
C12_ChunkAtomicCommit ==
    /\ ppc \notin {"off", "idle"} =>
          conn.disk = CommittedUpTo(origin.store, origin.start, i)
    /\ ppc = "crashed" => conn.work = conn.disk
    /\ settled # <<>> => settled[Len(settled)].after = conn.disk
    /\ \A j \in 1..(Len(settled) - 1) : settled[j + 1].before = settled[j].after

C12_Witness ==
    /\ ppc = "crashed"
    /\ settled # <<>>
    /\ settled[1].after # settled[1].before
    /\ Len(callLog) = Len(settled) + 1
    /\ LET ts == process_chunk(mistral[callLog[Len(callLog)]], paisa_set).terms
       IN  /\ ts # <<>>
           /\ InsertAll(conn.disk, ts) # conn.disk

(* C13: after any sequence of runs, the committed store holds at most one  *)
(* derived_forms row per word and slot.                                    *)
C13_OneRowPerSlot ==
    \A m, n \in 1..Len(conn.disk.derived) :
        (/\ conn.disk.derived[m].lemma_id = conn.disk.derived[n].lemma_id
         /\ conn.disk.derived[m].pos = conn.disk.derived[n].pos) => m = n

---------------------------------------------------------------------------
(* Claims about the reconciliation workflow *)

(* C14: no step of a reconciliation run changes the store, whatever --yes, *)
(* the replies and the number of rows found; the plan is only written out. *)
C14_StoreOnlyRead == [][db_path' = db_path]_vars

C14_Witness ==
    /\ rpc = "done"
    /\ Len(sql_file) >= 2
    /\ \E j \in 1..Len(sql_file) :
          sql_file[j].df_id \in 1..Len(db_path.derived)

(* C15: every row of the deletion plan is a derived_forms row whose form   *)
(* is the derived term of its pair; a row of the same root word with       *)
(* another form is never proposed.                                         *)
C15_PlanRowsCarryDerived ==
    \A j \in 1..Len(deletions) :
        Lower(<<db_path.derived[deletions[j].df_id].form>>)
            = Lower(deletions[j].derived)

(* The judgment has the word "no" in it: the two letters, with no letter   *)
(* before or after them.                                                   *)
Letter(c) == c \notin {Space, ".", ","}

HasWordNo(s) ==
    \E j \in 1..(Len(s) - 1) :
        /\ s[j] = "n" /\ s[j + 1] = "o"
        /\ j = 1 \/ ~Letter(s[j - 1])
        /\ j + 1 = Len(s) \/ ~Letter(s[j + 2])

(* C16: an output record with a matched input that yields a pair becomes a *)
(* deletion candidate if and only if its lower-cased judgment contains the *)
(* token "no".                                                             *)
C16_CandidateIffTokenNo ==
    \A j \in 1..Len(log) :
        (/\ log[j].pair.kind = "pair"
         /\ outputs[log[j].out].response.kind = "choices") =>
            (log[j].candidate <=>
                HasWordNo(Lower(outputs[log[j].out].response.content)))

(* The reply typed at the prompt is a yes *)
Affirmative(reply) ==
    LET r == Strip(Lower(reply)) IN r # <<>> /\ r[1] = "y"

ConfirmedPairs == {log[j].pair : j \in {h \in 1..Len(log) : log[h].confirm}}

(* C17: without --yes a pair is confirmed only after the prompt was shown  *)
(* for it and answered yes, and a candidate answered no, or with nothing,  *)
(* reaches neither to_delete nor the plan; with --yes the prompt is never  *)
(* shown and every candidate is confirmed.                                 *)
C17_ConfirmationGate ==
    /\ \A j \in 1..Len(log) :
          /\ ~yes => /\ log[j].asked <=> log[j].candidate
                     /\ log[j].confirm <=>
                            (log[j].asked /\ Affirmative(log[j].reply))
          /\ yes => /\ ~log[j].asked
                    /\ log[j].confirm <=> log[j].candidate
    /\ yes => rpc # "ask"
    /\ \A j \in 1..Len(to_delete) : to_delete[j] \in ConfirmedPairs
    /\ \A j \in 1..Len(deletions) :
          Pair(deletions[j].derived, deletions[j].root) \in ConfirmedPairs
    /\ \A j \in 1..Len(sql_file) :
          Pair(sql_file[j].derived, sql_file[j].root) \in ConfirmedPairs

C17_Witness ==
    /\ ~yes
    /\ rpc = "done"
    /\ sql_file # <<>>
    /\ \E j, h \in 1..Len(log) :
          /\ log[j].asked /\ log[j].reply = <<>> /\ ~log[j].confirm
          /\ log[h].asked /\ log[h].confirm
          /\ log[j].pair # log[h].pair

(* The words rows whose lemma is root, letter case aside, and the          *)
(* derived_forms rows that reference one of them                           *)
WordsNamed(root) ==
    {w \in 1..Len(db_path.words) : Lower(<<db_path.words[w].lemma>>) = Lower(root)}

RowsOf(ws) ==
    {r \in 1..Len(db_path.derived) : db_path.derived[r].lemma_id \in ws}

PlanEntries(p, r) ==
    {j \in 1..Len(deletions) : deletions[j] = Deletion(p.derived, p.root, r)}

(* C18: once matching is over, each confirmed pair whose root names no     *)
(* word has no entry in the plan, and each other confirmed pair has        *)
(* exactly one entry per derived_forms row of that word and none for a row *)
(* of another word.                                                        *)
C18_PlanPerConfirmedPair ==
    rpc = "done" =>
        \A p \in ConfirmedPairs :
            \A r \in 1..Len(db_path.derived) :
                Cardinality(PlanEntries(p, r))
                    = IF r \in RowsOf(WordsNamed(p.root)) THEN 1 ELSE 0

(* The output record has no input record of its custom_id, or the prompt   *)
(* of that input record lacks one of the two phrases.                      *)
Unmatched(o) ==
    \A h \in 1..Len(inputs) : inputs[h].custom_id # o.custom_id

LacksPhrase(o) ==
    /\ ~Unmatched(o)
    /\ o.custom_id # NoId
    /\ \/ Find(LaParola, input_map[o.custom_id].content, 0) = -1
       \/ Find(ConIlLemma, input_map[o.custom_id].content, 0) = -1

(* C19: an output record without input record, or whose prompt lacks one   *)
(* of the two phrases, yields no candidate and does not end the run: the   *)
(* records after it are processed, each once and in order.                 *)
C19_UnmatchedRecordsSkipped ==
    /\ \A j \in 1..Len(log) :
          /\ log[j].out = j
          /\ (Unmatched(outputs[j]) \/ LacksPhrase(outputs[j])) =>
                /\ ~log[j].candidate
                /\ ~log[j].confirm
                /\ \A h \in 1..Len(to_delete) : to_delete[h] # log[j].pair
    /\ rpc = "raised" =>
          /\ out \in 1..Len(outputs)
          /\ ~Unmatched(outputs[out])
          /\ ~LacksPhrase(outputs[out])
    /\ rpc \in {"scan", "ask"} => Len(log) = out - 1
    /\ rpc \in {"match", "done"} => Len(log) = Len(outputs)

C19_Witness ==
    /\ rpc = "done"
    /\ Len(log) = 2
    /\ Unmatched(outputs[1]) \/ LacksPhrase(outputs[1])
    /\ log[2].candidate
    /\ log[2].confirm
    /\ sql_file # <<>>

(* C20: every confirmed pair is still in to_delete when matching begins,   *)
(* also when two confirmed pairs have the same derived term and different  *)
(* roots.                                                                  *)
C20_ConfirmedPairsKept ==
    \A p \in ConfirmedPairs : \E j \in 1..Len(to_delete) : to_delete[j] = p

---------------------------------------------------------------------------
(* The result of invokeLLM *)

(* C21: what invokeLLM returns is consistent: with success the text is not *)
(* empty, without success it is the empty string, whatever content the     *)
(* model call returned, empty and whitespace-only content included.        *)
C21_ResultConsistent ==
    \A c \in Active :
        c.pc = "done" =>
            /\ c.success => c.response # <<>>
            /\ ~c.success => c.response = <<>>

===========================================================================
